---- MODULE Spec2Model ----
(***************************************************************************)
(* Model of server.js: an Express proxy that, per request, obtains an      *)
(* OAuth token for the Destination service, reads the destination          *)
(* configuration, and fetches one Northwind OData entity set.              *)
(*                                                                         *)
(* A request is a chain of at most three outbound HTTP calls; Node runs    *)
(* the code between two awaits atomically, so each action below is one     *)
(* such run: the synchronous start of a route handler, or the continuation *)
(* that runs when one outbound call settles.                               *)
(*                                                                         *)
(* Strings that the code only copies are TLA+ strings.  Strings the code   *)
(* takes apart or puts together (URLs, response texts) are sequences of    *)
(* pieces, a "/" always being a piece of its own.                          *)
(***************************************************************************)
EXTENDS Integers, Sequences, FiniteSets, TLC

\* ------------------------------------------------------------- bounds
\* Number of request slots that may be in flight at the same time.
NumReqs == 2
\* Longest destination URL (in pieces) the Destination service returns,
\* besides the Northwind URL itself.
MaxUrlLen == 3

\* ------------------------------------------------------------- values
\* JavaScript's undefined, as it appears when read out of a response body.
Undefined == "undefined"

Range(s) == {s[i] : i \in 1..Len(s)}

RECURSIVE SeqsUpTo(_, _)
\* All sequences over S of length at most n.
SeqsUpTo(S, n) ==
  IF n = 0 THEN {<<>>}
  ELSE LET shorter == SeqsUpTo(S, n - 1)
       IN  shorter \cup {Append(s, c) : s \in shorter, c \in S}

\* ------------------------------------------------------------- program constants
ALLOWED_ENTITIES ==
  << "Categories", "CustomerDemographics", "Customers", "Employees",
     "Order_Details", "Orders", "Products", "Regions" >>

\* The binding xsenv.getServices returns for the tag "destination".
DestServiceBinding ==
  [url |-> "https://auth.example", uri |-> "https://destination.example",
   clientid |-> "clientid", clientsecret |-> "clientsecret"]

\* process.env.DESTINATION_NAME || "Products"
destinationName == "Products"

\* "Expected: https://services.odata.org/northwind/northwind.svc"
NorthwindUrl ==
  << "https:", "/", "/", "services.odata.org", "/", "northwind", "/",
     "northwind.svc" >>

\* ------------------------------------------------------------- pure functions
\* String.prototype.toLowerCase on the names the model uses.
Lower(x) ==
  CASE x = "Categories"           -> "categories"
    [] x = "CustomerDemographics" -> "customerdemographics"
    [] x = "Customers"            -> "customers"
    [] x = "Employees"            -> "employees"
    [] x = "Order_Details"        -> "order_details"
    [] x = "Orders"               -> "orders"
    [] x = "Products"             -> "products"
    [] x = "Regions"              -> "regions"
    [] x = "Foo"                  -> "foo"
    [] OTHER                      -> x

\* Variant of Includes: the names are compared without regard to case.
IncludesIgnoreCase(arr, x) == \E i \in 1..Len(arr) : Lower(arr[i]) = Lower(x)

\* Array.prototype.includes: strict equality, so the match is exact and
\* case-sensitive.
Includes(arr, x) == \E i \in 1..Len(arr) : arr[i] = x

RECURSIVE Join(_, _)
\* Array.prototype.join, as a sequence of pieces.
Join(arr, sep) ==
  IF Len(arr) = 0 THEN <<>>
  ELSE IF Len(arr) = 1 THEN <<arr[1]>>
  ELSE <<arr[1], sep>> \o Join(Tail(arr), sep)

\* String.prototype.replace(/\/$/, ""): the pattern matches one "/" at the
\* end of the string, and without the g flag only that match is replaced.
StripTrailingSlash(url) ==
  IF Len(url) > 0 /\ url[Len(url)] = "/"
  THEN SubSeq(url, 1, Len(url) - 1)
  ELSE url

\* `${baseUrl}/${entity}?$format=json`
ODataUrl(baseUrl, entity) == baseUrl \o <<"/", entity, "?$format=json">>

\* `${destService.url}/oauth/token`
TokenUrl(svc) == <<svc.url, "/", "oauth", "/", "token">>

\* `${destService.uri}/destination-configuration/v1/destinations/${destinationName}`
ConfigUrl(svc) ==
  <<svc.uri, "/", "destination-configuration", "/", "v1", "/", "destinations",
    "/", destinationName>>

\* Property access on a parsed JSON body: a missing field reads as undefined.
Field(obj, name) == IF name \in DOMAIN obj THEN obj[name] ELSE Undefined

\* ------------------------------------------------------------- upstream replies
\* An upstream reply is [status, data]; status 0 stands for a call that got
\* no response at all (network error).

\* Variant of Resolves: validateStatus accepts every status, so axios
\* rejects only when there is no response.
ResolvesAnyStatus(reply) == reply.status # 0

\* axios resolves on 2xx and rejects on everything else.
Resolves(reply) == reply.status >= 200 /\ reply.status < 300

NetworkError == [status |-> 0, data |-> [code |-> "ECONNRESET"]]

\* The error axios rejects with: err.message, and err.response when the
\* upstream answered (<<>> when it did not).
AxiosError(reply) ==
  IF reply.status = 0
  THEN [message |-> "Network Error", response |-> <<>>]
  ELSE [message |-> "Request failed with status code",
        response |-> <<[status |-> reply.status, data |-> reply.data]>>]

\* The error thrown by reading a property of undefined.
TypeError == [message |-> "Cannot read properties of undefined", response |-> <<>>]

\* ------------------------------------------------------------- state
VARIABLES
  vcap,         \* environment: TRUE iff a destination instance is bound
  proc,         \* "starting", "loaded", "listening", "exited"
  destService,  \* <<>> until loaded, then <<services.dest>>
  req           \* per request slot: the request, the handler's locals, the
                \* calls it made and the replies it got, and its response

vars == <<vcap, proc, destService, req>>

Reqs == 1..NumReqs

\* A slot no request has used yet.
IdleReq ==
  [pc |-> "idle", path |-> <<>>, route |-> "none", entity |-> "none",
   accessToken |-> Undefined,
   calls |-> <<>>, replies |-> <<>>, log |-> <<>>,
   status |-> 0, via |-> "none", body |-> <<>>]

Init ==
  /\ vcap \in BOOLEAN
  /\ proc = "starting"
  /\ destService = <<>>
  /\ req = [r \in Reqs |-> IdleReq]

\* ------------------------------------------------------------- startup
\* Variant of LoadServices: the catch block logs but does not exit, and the
\* module goes on with a default binding.
LoadServicesNoExit ==
  /\ proc = "starting"
  /\ proc' = "loaded"
  /\ destService' = <<DestServiceBinding>>
  /\ UNCHANGED <<vcap, req>>

\* lines 12-24: xsenv.getServices throws when no instance with the tag is
\* bound; the catch logs and calls process.exit(1).
LoadServices ==
  /\ proc = "starting"
  /\ IF vcap
     THEN /\ proc' = "loaded"
          /\ destService' = <<DestServiceBinding>>
     ELSE /\ proc' = "exited"
          /\ destService' = destService
  /\ UNCHANGED <<vcap, req>>

\* lines 158-160: app.listen, reached only if the module body ran to its end.
Listen ==
  /\ proc = "loaded"
  /\ proc' = "listening"
  /\ UNCHANGED <<vcap, destService, req>>

\* ------------------------------------------------------------- outbound calls
\* axios.post(tokenUrl, params, {auth}) of getDestinationToken.
TokenCall(svc) ==
  [method |-> "POST", url |-> TokenUrl(svc),
   auth |-> <<"Basic", svc.clientid, svc.clientsecret>>]

\* Variant of ConfigCall: the token is kept in a module-level variable once
\* any request has obtained one, and every lookup sends that one.
ConfigCallCachedToken(svc, accessToken) ==
  LET cached == {req[o].accessToken : o \in DOMAIN req} \ {Undefined}
  IN  [method |-> "GET", url |-> ConfigUrl(svc),
       auth |-> <<"Bearer", IF cached = {} THEN accessToken
                            ELSE CHOOSE t \in cached : TRUE>>]

\* axios.get(configUrl, {headers: {Authorization: `Bearer ${accessToken}`}})
ConfigCall(svc, accessToken) ==
  [method |-> "GET", url |-> ConfigUrl(svc), auth |-> <<"Bearer", accessToken>>]

\* axios.get(odataUrl)
DataCall(odataUrl) == [method |-> "GET", url |-> odataUrl, auth |-> <<>>]

\* ------------------------------------------------------------- responses
RootText ==
  <<"Northwind Node app using Destination 'Products' is running. Call /products, /Customers or /odata/Products etc.">>

\* Variant of FailureBody: the text also carries what the upstream answered.
FailureBodyWithRemote(route, entity, err) ==
  <<"Failed to fetch ", entity, err.message>> \o err.response

\* The text each route sends with status 500.
FailureBody(route, entity, err) ==
  CASE route = "/products"      -> <<"Failed to fetch ", "Products">>
    [] route = "/odata/:entity" -> <<"Failed to fetch entity '", entity, "'">>
    [] route = "/:entity"       -> <<"Failed to fetch ", entity>>

\* `Entity '${entity}' is not allowed. Allowed: ${ALLOWED_ENTITIES.join(", ")}`
NotAllowedBody(entity) ==
  <<"Entity '", entity, "' is not allowed. Allowed: ">> \o Join(ALLOWED_ENTITIES, ", ")

\* The route's error prefix in console.error.
ErrorPrefix(route, entity) ==
  CASE route = "/products"      -> <<"Error in /products:">>
    [] route = "/odata/:entity" -> <<"Error in /odata/", entity, ":">>
    [] route = "/:entity"       -> <<"Error in /", entity, ":">>

\* What the catch block writes with console.error.
ErrorLog(route, entity, err) ==
  <<[line |-> ErrorPrefix(route, entity) \o <<err.message>>, remote |-> <<>>]>>
  \o (IF err.response # <<>>
      THEN <<[line |-> <<"Remote error:">>, remote |-> err.response]>>
      ELSE <<>>)

\* The catch block of a route handler: log, then res.status(500).send(text).
Caught(q, err) ==
  [q EXCEPT !.pc = "done",
            !.log = @ \o ErrorLog(q.route, q.entity, err),
            !.status = 500,
            !.via = "send",
            !.body = FailureBody(q.route, q.entity, err)]

\* ------------------------------------------------------------- route handlers
\* A connection is accepted only by a listening process; a slot whose
\* response has been sent is free for the next request.
Accepts(r) == proc = "listening" /\ req[r].pc \in {"idle", "done"}

\* Variant of Rejected: the handler has no try/catch, so the rejection is
\* unhandled, the request gets no response and Node terminates the process.
RejectedUnhandled(r, q, err) ==
  /\ req' = [req EXCEPT ![r] = q]
  /\ proc' = "exited"
  /\ UNCHANGED <<vcap, destService>>

\* try { await fetchODataEntity(...) } catch (err) { ... }: the rejection is
\* handled inside the request, and nothing else changes.
Rejected(r, q, err) ==
  /\ req' = [req EXCEPT ![r] = Caught(q, err)]
  /\ UNCHANGED <<vcap, proc, destService>>

\* fetchODataEntity up to its first await: getDestinationToken issues the
\* token request.
StartFetch(r, path, route, entity) ==
  /\ req' = [req EXCEPT ![r] =
               [IdleReq EXCEPT !.pc = "token", !.path = path, !.route = route,
                               !.entity = entity,
                               !.calls = <<TokenCall(destService[1])>>]]
  /\ UNCHANGED <<vcap, proc, destService>>

\* Variant of GetRoot: the health check probes the upstream chain.
GetRootProbe(r) ==
  /\ Accepts(r)
  /\ StartFetch(r, <<"/">>, "/", "Products")

\* lines 94-98
GetRoot(r) ==
  /\ Accepts(r)
  /\ req' = [req EXCEPT ![r] =
               [IdleReq EXCEPT !.pc = "done", !.path = <<"/">>, !.route = "/",
                               !.status = 200,
                               !.via = "send", !.body = RootText]]
  /\ UNCHANGED <<vcap, proc, destService>>

\* lines 101-112
GetProducts(r) ==
  /\ Accepts(r)
  /\ StartFetch(r, <<"/", "products">>, "/products", "Products")

\* lines 115-139
GetOData(r, entity) ==
  /\ Accepts(r)
  /\ IF ~Includes(ALLOWED_ENTITIES, entity)
     THEN /\ req' = [req EXCEPT ![r] =
                       [IdleReq EXCEPT !.pc = "done",
                                       !.path = <<"/", "odata", "/", entity>>,
                                       !.route = "/odata/:entity",
                                       !.entity = entity, !.status = 400,
                                       !.via = "send",
                                       !.body = NotAllowedBody(entity)]]
          /\ UNCHANGED <<vcap, proc, destService>>
     ELSE StartFetch(r, <<"/", "odata", "/", entity>>, "/odata/:entity", entity)

\* Variant of GetShortcut: every route closure sees the loop variable's last
\* value instead of its own entity.
GetShortcutLastEntity(r, entity) ==
  /\ Accepts(r)
  /\ Includes(ALLOWED_ENTITIES, entity)
  /\ StartFetch(r, <<"/", entity>>, "/:entity", ALLOWED_ENTITIES[Len(ALLOWED_ENTITIES)])

\* lines 142-155: one route per element of ALLOWED_ENTITIES.
GetShortcut(r, entity) ==
  /\ Accepts(r)
  /\ Includes(ALLOWED_ENTITIES, entity)
  /\ StartFetch(r, <<"/", entity>>, "/:entity", entity)

\* ------------------------------------------------------------- continuations
\* The token request settles: getDestinationToken returns
\* response.data.access_token, and getDestinationConfig issues the lookup.
TokenSettles(r, reply) ==
  /\ proc = "listening"
  /\ req[r].pc = "token"
  /\ LET q == [req[r] EXCEPT !.replies = Append(@, reply)]
     IN  IF ~Resolves(reply)
         THEN Rejected(r, q, AxiosError(reply))
         ELSE LET accessToken == Field(reply.data, "access_token")
              IN  /\ req' = [req EXCEPT ![r] =
                               [q EXCEPT !.pc = "config",
                                         !.accessToken = accessToken,
                                         !.calls = Append(@, ConfigCall(destService[1], accessToken))]]
                  /\ UNCHANGED <<vcap, proc, destService>>

\* The lookup settles: getDestinationConfig returns
\* response.data.destinationConfiguration, fetchODataEntity reads its URL,
\* composes the entity URL and issues the data request.
ConfigSettles(r, reply) ==
  /\ proc = "listening"
  /\ req[r].pc = "config"
  /\ LET q == [req[r] EXCEPT !.replies = Append(@, reply)]
     IN  IF ~Resolves(reply)
         THEN Rejected(r, q, AxiosError(reply))
         ELSE IF "destinationConfiguration" \notin DOMAIN reply.data
         THEN Rejected(r, q, TypeError)      \* undefined.URL
         ELSE IF "URL" \notin DOMAIN reply.data.destinationConfiguration
         THEN Rejected(r, q, TypeError)      \* undefined.replace
         ELSE LET baseUrl == StripTrailingSlash(reply.data.destinationConfiguration.URL)
                  odataUrl == ODataUrl(baseUrl, q.entity)
              IN  /\ req' = [req EXCEPT ![r] =
                               [q EXCEPT !.pc = "data",
                                         !.calls = Append(@, DataCall(odataUrl))]]
                  /\ UNCHANGED <<vcap, proc, destService>>

\* The data request settles: fetchODataEntity returns result.data and the
\* handler sends it with res.json.
DataSettles(r, reply) ==
  /\ proc = "listening"
  /\ req[r].pc = "data"
  /\ LET q == [req[r] EXCEPT !.replies = Append(@, reply)]
     IN  IF ~Resolves(reply)
         THEN Rejected(r, q, AxiosError(reply))
         ELSE /\ req' = [req EXCEPT ![r] =
                           [q EXCEPT !.pc = "done", !.status = 200,
                                     !.via = "json", !.body = <<reply.data>>]]
              /\ UNCHANGED <<vcap, proc, destService>>

\* ------------------------------------------------------------- inputs
Tokens == {"t1", "t2"}

\* Path parameters of /odata/:entity: the allowed names and two others, one
\* of them an allowed name in another case.
PathParams == Range(ALLOWED_ENTITIES) \cup {"products", "Foo"}

UrlPieces == {"h", "/"}

\* Destination URLs: the Northwind URL with and without a trailing slash,
\* and every short URL.
Urls ==
  {NorthwindUrl, Append(NorthwindUrl, "/")} \cup SeqsUpTo(UrlPieces, MaxUrlLen)

ErrorReplies ==
  { [status |-> 401, data |-> [error |-> "unauthorized"]],
    [status |-> 500, data |-> [error |-> "internal"]],
    NetworkError }

TokenReplies ==
  {[status |-> 200, data |-> [access_token |-> t]] : t \in Tokens}
  \cup {[status |-> 200, data |-> [token_type |-> "bearer"]]}
  \cup ErrorReplies

ConfigReplies ==
  {[status |-> 200,
    data |-> [destinationConfiguration |-> [Name |-> destinationName, URL |-> u]]]
     : u \in Urls}
  \cup {[status |-> 200, data |-> [destinationConfiguration |-> [Name |-> destinationName]]],
        [status |-> 200, data |-> [owner |-> "subaccount"]]}
  \cup ErrorReplies

DataReplies ==
  { [status |-> 200, data |-> [value |-> <<"row">>]],
    [status |-> 200, data |-> [value |-> <<>>]] }
  \cup ErrorReplies

\* ------------------------------------------------------------- one request at a time
Request(r) ==
  \/ GetRoot(r)
  \/ GetProducts(r)
  \/ \E e \in PathParams : GetOData(r, e)
  \/ \E e \in Range(ALLOWED_ENTITIES) : GetShortcut(r, e)

Settle(r) ==
  \/ \E reply \in TokenReplies : TokenSettles(r, reply)
  \/ \E reply \in ConfigReplies : ConfigSettles(r, reply)
  \/ \E reply \in DataReplies : DataSettles(r, reply)

Next ==
  \/ LoadServices
  \/ Listen
  \/ Request(1)
  \/ Settle(1)

Spec == Init /\ [][Next]_vars

\* ------------------------------------------------------------- concurrent requests
\* Every slot may hold a request, and their outbound calls settle in any
\* order.  The inputs are a part of those of Spec.
ConcPathParams == {"Orders", "Foo"}

ConcUrls == {Append(NorthwindUrl, "/"), <<"h">>}

ConcErrorReplies ==
  { [status |-> 401, data |-> [error |-> "unauthorized"]],
    [status |-> 500, data |-> [error |-> "internal"]] }

ConcTokenReplies ==
  {[status |-> 200, data |-> [access_token |-> t]] : t \in Tokens}
  \cup ConcErrorReplies

ConcConfigReplies ==
  {[status |-> 200,
    data |-> [destinationConfiguration |-> [Name |-> destinationName, URL |-> u]]]
     : u \in ConcUrls}
  \cup {[status |-> 200, data |-> [destinationConfiguration |-> [Name |-> destinationName]]],
        [status |-> 401, data |-> [error |-> "unauthorized"]]}

ConcDataReplies ==
  { [status |-> 200, data |-> [value |-> <<"row">>]],
    [status |-> 500, data |-> [error |-> "internal"]] }

ConcRequest(r) ==
  \/ GetRoot(r)
  \/ GetProducts(r)
  \/ \E e \in ConcPathParams : GetOData(r, e)
  \/ \E e \in ConcPathParams : GetShortcut(r, e)

ConcSettle(r) ==
  \/ \E reply \in ConcTokenReplies : TokenSettles(r, reply)
  \/ \E reply \in ConcConfigReplies : ConfigSettles(r, reply)
  \/ \E reply \in ConcDataReplies : DataSettles(r, reply)

ConcNext ==
  \/ LoadServices
  \/ Listen
  \/ \E r \in Reqs : ConcRequest(r)
  \/ \E r \in Reqs : ConcSettle(r)

SpecConc == Init /\ [][ConcNext]_vars

\* ------------------------------------------------------------- properties
AllowedNames == Range(ALLOWED_ENTITIES)

DataRoutes == {"/products", "/odata/:entity", "/:entity"}

Is2xx(reply) == reply.status \in 200..299

\* The i-th reply the request got is a failure of that step of the chain.
TokenFailed(q) == Len(q.replies) >= 1 /\ ~Is2xx(q.replies[1])

\* C1: when the token exchange returns a non-2xx status, the request is
\* answered with 500 by res.send, and the token request is the only outbound
\* call it ever made: no destination lookup, no data fetch, no relayed data.
C1_TokenFailureGives500 ==
  \A r \in Reqs :
    LET q == req[r]
    IN  (q.route \in DataRoutes /\ TokenFailed(q)) =>
          /\ q.pc = "done"
          /\ q.status = 500
          /\ q.via = "send"
          /\ q.calls = <<TokenCall(DestServiceBinding)>>

\* A shortcut route has answered a request whose token exchange returned 401.
C1_Witness ==
  \E r \in Reqs :
    /\ req[r].route = "/:entity"
    /\ req[r].pc = "done"
    /\ Len(req[r].replies) = 1
    /\ req[r].replies[1].status = 401
    /\ req[r].status = 500

\* C2: a request GET /odata/{e} with e not exactly one of the 8 allowed
\* names is answered 400 by res.send with a text that lists every allowed
\* name, and it makes no outbound call.
C2_NotAllowedGives400 ==
  \A r \in Reqs :
    LET q == req[r]
    IN  (/\ Len(q.path) = 4
         /\ SubSeq(q.path, 1, 3) = <<"/", "odata", "/">>
         /\ q.path[4] \notin AllowedNames) =>
          /\ q.pc = "done"
          /\ q.status = 400
          /\ q.via = "send"
          /\ \A n \in AllowedNames : n \in Range(q.body)
          /\ q.calls = <<>>
          /\ q.replies = <<>>

\* GET /odata/products, an allowed name in lower case, has been answered 400.
C2_Witness ==
  \E r \in Reqs :
    /\ req[r].path = <<"/", "odata", "/", "products">>
    /\ req[r].pc = "done"
    /\ req[r].status = 400

\* C5: when no destination instance is bound, the process never listens
\* and no route ever handles a request.
C5_NoBindingNeverListens ==
  ~vcap => /\ proc \in {"starting", "exited"}
           /\ \A r \in Reqs : req[r] = IdleReq

\* The process started without the binding and has exited.
C5_Witness == ~vcap /\ proc = "exited"

\* C9: GET / makes no outbound call and answers 200 with the static text,
\* and a listening process can always answer it on a free slot.
C9_RootIsStatic ==
  \A r \in Reqs :
    /\ req[r].path = <<"/">> =>
         /\ req[r].pc = "done"
         /\ req[r].status = 200
         /\ req[r].via = "send"
         /\ req[r].body = RootText
         /\ req[r].calls = <<>>
    /\ Accepts(r) => ENABLED GetRoot(r)

\* GET / has been answered while another request waits for its destination
\* lookup.
C9_Witness ==
  \E r, o \in Reqs :
    /\ req[r].path = <<"/">>
    /\ req[r].status = 200
    /\ req[o].pc = "config"

\* The request path GET /odata/{e} and the shortcut path GET /{e}.
ODataPath(e) == <<"/", "odata", "/", e>>
ShortcutPath(e) == <<"/", e>>

\* C3 as stated: for an allowed name, GET /odata/{name} and GET /{name}
\* that get the same upstream replies make the same outbound calls and send
\* the same status and the same body, on success and on failure.
C3_SameCallsStatusAndBody ==
  \A r1, r2 \in Reqs : \A e \in AllowedNames :
    (/\ req[r1].path = ODataPath(e)
     /\ req[r2].path = ShortcutPath(e)
     /\ req[r1].replies = req[r2].replies) =>
       /\ req[r1].calls = req[r2].calls
       /\ req[r1].status = req[r2].status
       /\ req[r1].body = req[r2].body

\* C3 as amended: the two routes make the same outbound calls, are at the
\* same step, send the same status by the same method and, on success, the
\* same body; on failure the generic route sends "Failed to fetch entity
\* '{name}'" and the shortcut route sends "Failed to fetch {name}".
C3_SameCallsAndStatus ==
  \A r1, r2 \in Reqs : \A e \in AllowedNames :
    (/\ req[r1].path = ODataPath(e)
     /\ req[r2].path = ShortcutPath(e)
     /\ req[r1].replies = req[r2].replies) =>
       /\ req[r1].pc = req[r2].pc
       /\ req[r1].calls = req[r2].calls
       /\ req[r1].status = req[r2].status
       /\ req[r1].via = req[r2].via
       /\ req[r1].status = 200 => req[r1].body = req[r2].body
       /\ req[r1].status = 500 =>
            /\ req[r1].body = <<"Failed to fetch entity '", e, "'">>
            /\ req[r2].body = <<"Failed to fetch ", e>>

\* Both routes have answered 500 for the same name after the same failed
\* data fetch.
C3_Witness ==
  \E r1, r2 \in Reqs : \E e \in AllowedNames :
    /\ req[r1].path = ODataPath(e)
    /\ req[r2].path = ShortcutPath(e)
    /\ req[r1].replies = req[r2].replies
    /\ Len(req[r1].replies) = 3
    /\ req[r1].status = 500
    /\ req[r2].status = 500

RECURSIVE StripAllTrailingSlashes(_)
\* The URL without any of the "/" it ends in.
StripAllTrailingSlashes(url) ==
  IF Len(url) > 0 /\ url[Len(url)] = "/"
  THEN StripAllTrailingSlashes(SubSeq(url, 1, Len(url) - 1))
  ELSE url

\* C4: whatever number of "/" the resolved URL ends in, the data fetch goes
\* to {URL without trailing slashes}/{entity}?$format=json, so no "/" stands
\* before the "/" that precedes the entity name.
C4_NoDoubleSlashBeforeEntity ==
  \A r \in Reqs :
    Len(req[r].calls) = 3 =>
      LET u == req[r].calls[3].url
          n == Len(u)
          resolved == req[r].replies[2].data.destinationConfiguration.URL
      IN  /\ u = StripAllTrailingSlashes(resolved)
                   \o <<"/", req[r].entity, "?$format=json">>
          /\ n >= 4 => ~(u[n - 3] = "/" /\ u[n - 2] = "/")

\* C6: when the token endpoint answers non-2xx, or 2xx without an
\* access_token, the request ends with 500 after that one call, and no
\* lookup is ever sent with the bearer token undefined.
C6_NoLookupWithoutToken ==
  \A r \in Reqs :
    LET q == req[r]
    IN  /\ (/\ Len(q.replies) >= 1
            /\ \/ ~Is2xx(q.replies[1])
               \/ "access_token" \notin DOMAIN q.replies[1].data) =>
              /\ q.pc = "done"
              /\ q.status = 500
              /\ Len(q.calls) = 1
        /\ \A i \in 1..Len(q.calls) : q.calls[i].auth # <<"Bearer", Undefined>>

\* Some step of the chain failed: a call got no 2xx reply, or the lookup's
\* reply has no destinationConfiguration or one without URL.
ChainFailed(q) ==
  \/ \E i \in 1..Len(q.replies) : ~Is2xx(q.replies[i])
  \/ /\ Len(q.replies) >= 2
     /\ Is2xx(q.replies[2])
     /\ \/ "destinationConfiguration" \notin DOMAIN q.replies[2].data
        \/ "URL" \notin DOMAIN q.replies[2].data.destinationConfiguration

\* A request whose chain failed has been answered 500 as text, by a process
\* that still listens and accepts the next request on that slot.
C7_FailureAnswered ==
  \A r \in Reqs :
    ChainFailed(req[r]) =>
      /\ req[r].pc = "done"
      /\ req[r].status = 500
      /\ req[r].via = "send"
      /\ proc = "listening"
      /\ ENABLED GetProducts(r)

\* C7: a failure in any step of the chain ends that request with 500, and
\* a listening process keeps listening and accepting requests.
C7_FailureIs500AndProcessLives ==
  /\ []C7_FailureAnswered
  /\ [][proc = "listening" => proc' = "listening"]_vars

\* A lookup that returned no URL has been answered with 500, and the
\* process listens.
C7_Witness ==
  \E r \in Reqs :
    /\ Len(req[r].replies) = 2
    /\ Is2xx(req[r].replies[2])
    /\ "destinationConfiguration" \in DOMAIN req[r].replies[2].data
    /\ "URL" \notin DOMAIN req[r].replies[2].data.destinationConfiguration
    /\ req[r].status = 500
    /\ proc = "listening"

\* C8: two failure responses (400 or 500) of the same route for the same
\* entity have the same body, sent as text, whatever the upstream answered.
C8_FailureBodyIsGeneric ==
  \A r1, r2 \in Reqs :
    (/\ req[r1].pc = "done" /\ req[r2].pc = "done"
     /\ req[r1].status \in {400, 500} /\ req[r2].status \in {400, 500}
     /\ req[r1].route = req[r2].route
     /\ req[r1].entity = req[r2].entity) =>
       /\ req[r1].via = "send"
       /\ req[r1].body = req[r2].body

\* Two requests of the same route and entity have failed, one on a 401 and
\* one on a 500 of the token endpoint, and both errors are in the log.
C8_Witness ==
  \E r1, r2 \in Reqs :
    /\ req[r1].route = req[r2].route
    /\ req[r1].entity = req[r2].entity
    /\ req[r1].status = 500 /\ req[r2].status = 500
    /\ Len(req[r1].replies) = 1 /\ Len(req[r2].replies) = 1
    /\ req[r1].replies[1].status = 401
    /\ req[r2].replies[1].status = 500
    /\ req[r1].log[2].remote # req[r2].log[2].remote

\* C10: each request makes its own token exchange, then its own lookup with
\* the token that exchange returned, then its own data fetch from the URL
\* that lookup returned; and two requests for the same path that get the
\* same replies are in the same state.
C10_NoStateCrossesRequests ==
  /\ \A r \in Reqs :
       LET q == req[r]
           n == Len(q.calls)
       IN  /\ n <= 3
           /\ Len(q.replies) <= n
           /\ q.pc \in {"token", "config", "data"} => Len(q.replies) = n - 1
           /\ n >= 1 => q.calls[1] = TokenCall(DestServiceBinding)
           /\ n >= 2 =>
                /\ Is2xx(q.replies[1])
                /\ q.calls[2].method = "GET"
                /\ q.calls[2].url = ConfigUrl(DestServiceBinding)
                /\ q.calls[2].auth = <<"Bearer", Field(q.replies[1].data, "access_token")>>
           /\ n = 3 =>
                /\ Is2xx(q.replies[2])
                /\ q.calls[3] =
                     DataCall(ODataUrl(StripTrailingSlash(
                                q.replies[2].data.destinationConfiguration.URL),
                              q.entity))
  /\ \A r1, r2 \in Reqs :
       (req[r1].path = req[r2].path /\ req[r1].replies = req[r2].replies) =>
         req[r1] = req[r2]

\* Two requests wait for their data fetch at the same time, having got
\* different tokens and different destination URLs.
C10_Witness ==
  \E r1, r2 \in Reqs :
    /\ req[r1].pc = "data" /\ req[r2].pc = "data"
    /\ req[r1].accessToken # req[r2].accessToken
    /\ req[r1].calls[3].url # req[r2].calls[3].url

====
